---- MODULE Spec2Model ----
(***************************************************************************)
(* A model of the msg package (template compiler ParseFormatString and the *)
(* logger Object built by NewMsg) and of GetExitCode of the run package of *)
(* jlinoff/go.                                                             *)
(*                                                                         *)
(* Strings are sequences of one-character strings (bytes).  Go's 0-based   *)
(* byte indices are kept: ib[i] is At(ib, i), ib[a:b] is Slice(ib, a, b).  *)
(*                                                                         *)
(*   ParseSpec : the scanner of ParseFormatString, one loop iteration per  *)
(*               step, over every template of a bounded set.               *)
(*   LogSpec   : a program that calls NewMsg and then the methods of the   *)
(*               Object it got, in any order.                              *)
(*   RunSpec   : GetExitCode of package run applied to an error.           *)
(***************************************************************************)
EXTENDS Integers, Sequences, FiniteSets, TLC

VARIABLES
    input,   \* ParseFormatString: the template being compiled (ib)
    scan,    \* ParseFormatString: the locals i, s, ofmtb and the result oids
    ret,     \* ParseFormatString: returned?, ofmt, err (kind) and the error's %v argument
    prev,    \* history: the scanner's locals before the last loop iteration
    pc,      \* the program: "start", "running", "PrintMsg" (a method has called it),
             \* "returning" (a method is about to return), "exiting" (Err is about
             \* to call os.Exit), "exited"
    obj,     \* the *Object that NewMsg returned (Nil before the call)
    nerr,    \* the error that NewMsg returned
    now,     \* the clock that time.Now() reads, in ticks
    trace,   \* the writes the call in progress has made to the sinks, in order
    stderr,  \* what the program has written to os.Stderr
    exitCode, \* the status the process exited with (NoExit while it runs)
    run,     \* package run: the error given to GetExitCode and the code it returned
    call     \* the call of NewMsg or of a method in progress: its arguments, and as
             \* history the locals s (the line) and m (the fields) of PrintMsg

pvars == <<input, scan, ret, prev>>

lvars == <<pc, obj, nerr, now, trace, stderr, exitCode, call>>

vars == <<pvars, lvars, run>>

\* the nil *Object
Nil == [nil |-> TRUE]

\* exitCode while the process has not exited
NoExit == -1

\* run while GetExitCode has not been called
NoRun == [err |-> [type |-> "nil"], code |-> 0, returned |-> FALSE]

\* call while no method of the Object is running
NoCall == [op |-> "none"]

----------------------------------------------------------------------------
(* Go slices and byte helpers *)

At(ib, i) == ib[i + 1]

Slice(ib, a, b) == SubSeq(ib, a + 1, b)

SliceFrom(ib, a) == SubSeq(ib, a + 1, Len(ib))

\* bytes.HasPrefix(s, p)
HasPrefix(s, p) == /\ Len(p) <= Len(s)
                   /\ SubSeq(s, 1, Len(p)) = p

----------------------------------------------------------------------------
(* ParseFormatString *)

\* a faulty valid: an identifier that PrintMsg has no value for is accepted
validWithX == << <<"f","i","l","e">>, <<"f","u","n","c">>, <<"l","i","n","e">>,
                 <<"m","s","g">>, <<"p","k","g">>, <<"t","i","m","e">>,
                 <<"t","y","p","e">>, <<"u","t","c">>, <<"x">> >>

\* valid := []string{"file", "func", "line", "msg", "pkg", "time", "type", "utc"}
valid == << <<"f","i","l","e">>, <<"f","u","n","c">>, <<"l","i","n","e">>,
            <<"m","s","g">>, <<"p","k","g">>, <<"t","i","m","e">>,
            <<"t","y","p","e">>, <<"u","t","c">> >>

\* ics := []byte("abc...xyzABC...XYZ0123456789_-$")
ics == {"a","b","c","d","e","f","g","h","i","j","k","l","m","n","o","p","q",
        "r","s","t","u","v","w","x","y","z",
        "A","B","C","D","E","F","G","H","I","J","K","L","M","N","O","P","Q",
        "R","S","T","U","V","W","X","Y","Z",
        "0","1","2","3","4","5","6","7","8","9","_","-","$"}

\* the parse states
normal == "normal"
spec == "spec"

\* the errors ParseFormatString makes with fmt.Errorf, by their text
NoErr == "nil"
ErrMissingParen == "missing ')' for"
ErrUnrecognized == "unrecognized specification id"
ErrSyntax == "specification syntax error"

\* a faulty FindClose: the loop gives up one byte before the end
RECURSIVE FindCloseShort(_, _)
FindCloseShort(ib, i) ==
    IF i < Len(ib) - 1 /\ At(ib, i) # ")" THEN FindCloseShort(ib, i + 1) ELSE i

\* for ; i < len(ib) && ib[i] != ')'; i++ {}
RECURSIVE FindClose(_, _)
FindClose(ib, i) ==
    IF i < Len(ib) /\ At(ib, i) # ")" THEN FindClose(ib, i + 1) ELSE i

\* for _, v := range valid { if bytes.HasPrefix(ib[i:], ba) {...} }: the index in
\* valid of the first identifier that is a prefix of ib[i:], 0 when there is none
FirstMatch(ib, i) ==
    LET hits == {k \in 1..Len(valid) : HasPrefix(SliceFrom(ib, i), valid[k])}
    IN  IF hits = {} THEN 0 ELSE CHOOSE k \in hits : \A h \in hits : k <= h

\* a faulty IsContinuation: the byte after the identifier is never looked at
IsContinuationOff(ib, i) == FALSE

\* if i < len(ib) { if bytes.Contains(ics, []byte{ib[i]}) {...} }
IsContinuation(ib, i) == i < Len(ib) /\ At(ib, i) \in ics

\* the locals at entry and the named results before any assignment
ScanInit == [i |-> 0, s |-> normal, ofmtb |-> <<>>, oids |-> <<>>]

RetInit == [returned |-> FALSE, ofmt |-> <<>>, err |-> NoErr, arg |-> <<>>]

\* "now parse out the id": the rest of the spec case once the verb is in ofmtb
\* and i points at the identifier
ParseId(ib, st, ofmtb, i, beg) ==
    LET k  == FirstMatch(ib, i)
        ba == valid[k]
        i3 == i + Len(ba)
    IN  IF k = 0
        THEN [scan |-> [st EXCEPT !.s = normal, !.ofmtb = ofmtb, !.i = i],
              ret  |-> [returned |-> TRUE, ofmt |-> ofmtb, err |-> ErrSyntax,
                        arg |-> SliceFrom(ib, beg)]]
        ELSE IF IsContinuation(ib, i3)
        THEN [scan |-> [st EXCEPT !.s = normal, !.ofmtb = ofmtb, !.i = i3],
              ret  |-> [returned |-> TRUE, ofmt |-> ofmtb, err |-> ErrUnrecognized,
                        arg |-> Append(ba, At(ib, i3))]]
        ELSE [scan |-> [i |-> i3, s |-> normal, ofmtb |-> ofmtb,
                        oids |-> Append(st.oids, ba)],
              ret  |-> RetInit]

\* case spec: of the loop body, followed by the loop's i++
SpecCase(ib, st) ==
    LET beg == st.i - 1
        j   == st.i
        i1  == FindClose(ib, st.i)
    IN  IF At(ib, st.i) = "("
        THEN IF i1 >= Len(ib)
             THEN [scan |-> [st EXCEPT !.s = normal, !.i = i1],
                   ret  |-> [returned |-> TRUE, ofmt |-> <<>>, err |-> ErrMissingParen,
                             arg |-> SliceFrom(ib, beg)]]
             ELSE ParseId(ib, st, st.ofmtb \o <<"%">> \o Slice(ib, j + 1, i1) \o <<"v">>,
                          i1 + 1, beg)
        ELSE ParseId(ib, st, st.ofmtb \o <<"%", "v">>, st.i, beg)

\* case normal: of the loop body, followed by the loop's i++
NormalCase(ib, st) ==
    [scan |-> IF At(ib, st.i) = "%"
              THEN [st EXCEPT !.s = spec, !.i = st.i + 1]
              ELSE [st EXCEPT !.ofmtb = Append(st.ofmtb, At(ib, st.i)), !.i = st.i + 1],
     ret  |-> RetInit]

\* a faulty ScanStep: the end of the template in the spec state is an error
ScanStepStrict(ib, st) ==
    IF st.i < Len(ib)
    THEN IF st.s = normal THEN NormalCase(ib, st) ELSE SpecCase(ib, st)
    ELSE [scan |-> st,
          ret  |-> [returned |-> TRUE, ofmt |-> st.ofmtb,
                    err |-> IF st.s = spec THEN ErrSyntax ELSE NoErr,
                    arg |-> IF st.s = spec THEN SliceFrom(ib, st.i - 1) ELSE <<>>]]

\* one pass of for i := 0; i < len(ib); i++ {...}, or the return after the loop
ScanStep(ib, st) ==
    IF st.i < Len(ib)
    THEN IF st.s = normal THEN NormalCase(ib, st) ELSE SpecCase(ib, st)
    ELSE [scan |-> st,
          ret  |-> [returned |-> TRUE, ofmt |-> st.ofmtb, err |-> NoErr, arg |-> <<>>]]

\* the whole call: (ofmt, oids, err)
RECURSIVE RunScan(_, _)
RunScan(ib, st) ==
    LET r == ScanStep(ib, st)
    IN  IF r.ret.returned
        THEN [ofmt |-> r.ret.ofmt, oids |-> r.scan.oids, err |-> r.ret.err,
              arg |-> r.ret.arg]
        ELSE RunScan(ib, r.scan)

ParseFormatString(ib) == RunScan(ib, ScanInit)

----------------------------------------------------------------------------
(* fmt.Sprintf on string operands, as the package uses it.  The formats of  *)
(* this model hold no '.', '*' or '[' (precision, starred width, operand    *)
(* index), so a directive is % flags width verb.                            *)

FlagBytes == {"#", "0", "+", "-", " "}

Digits == <<"0", "1", "2", "3", "4", "5", "6", "7", "8", "9">>

IsDigit(c) == \E d \in 1..10 : Digits[d] = c

DigitVal(c) == (CHOOSE d \in 1..10 : Digits[d] = c) - 1

\* the length of the longest prefix of s made of bytes of the set cs
RECURSIVE SpanLen(_, _)
SpanLen(s, cs) ==
    IF s # <<>> /\ Head(s) \in cs THEN 1 + SpanLen(Tail(s), cs) ELSE 0

RECURSIVE ParseNum(_, _)
ParseNum(s, acc) ==
    IF s = <<>> THEN acc ELSE ParseNum(Tail(s), 10 * acc + DigitVal(Head(s)))

RECURSIVE Spaces(_)
Spaces(n) == IF n <= 0 THEN <<>> ELSE <<" ">> \o Spaces(n - 1)

\* a directive, given the bytes after its '%': its flags, width, verb ("" when
\* the format ends first: NOVERB) and the number of bytes it takes after the '%'
Directive(s) ==
    LET nf    == SpanLen(s, FlagBytes)
        s1    == SubSeq(s, nf + 1, Len(s))
        nw    == SpanLen(s1, {Digits[d] : d \in 1..10})
        s2    == SubSeq(s1, nw + 1, Len(s1))
    IN  [minus |-> \E k \in 1..nf : s[k] = "-",
         width |-> ParseNum(SubSeq(s1, 1, nw), 0),
         verb  |-> IF s2 = <<>> THEN "" ELSE Head(s2),
         size  |-> nf + nw + (IF s2 = <<>> THEN 0 ELSE 1)]

\* fmtS / padString: the operand padded to the width, on the right with '-'
Pad(v, d) ==
    IF d.minus THEN v \o Spaces(d.width - Len(v)) ELSE Spaces(d.width - Len(v)) \o v

\* printArg for a string operand: %v and %s print it; %q, %x and %X encode it
\* (the encoding is kept opaque: the bytes <q>, <x> or <X> before the
\* operand); any other verb is a bad verb
PrintArg(v, d) ==
    IF d.verb \in {"v", "s"} THEN Pad(v, d)
    ELSE IF d.verb \in {"q", "x", "X"} THEN <<"<", d.verb, ">">> \o v
    ELSE <<"%", "!", d.verb, "(", "s","t","r","i","n","g", "=">> \o v \o <<")">>

MissingArg(verb) == <<"%", "!", verb, "(", "M","I","S","S","I","N","G", ")">>

NoVerb == <<"%", "!", "(", "N","O","V","E","R","B", ")">>

RECURSIVE ExtraList(_)
ExtraList(a) ==
    IF a = <<>> THEN <<>>
    ELSE <<"s","t","r","i","n","g","=">> \o Head(a)
         \o (IF Len(a) > 1 THEN <<",", " ">> ELSE <<>>) \o ExtraList(Tail(a))

ExtraArgs(a) == <<"%", "!", "(", "E","X","T","R","A", " ">> \o ExtraList(a) \o <<")">>

\* doPrintf: the format against the operands not yet used
RECURSIVE DoPrintf(_, _)
DoPrintf(f, a) ==
    IF f = <<>> THEN (IF a = <<>> THEN <<>> ELSE ExtraArgs(a))
    ELSE IF Head(f) # "%" THEN <<Head(f)>> \o DoPrintf(Tail(f), a)
    ELSE LET d    == Directive(Tail(f))
             rest == SubSeq(f, d.size + 2, Len(f))
         IN  IF d.verb = "" THEN NoVerb \o DoPrintf(rest, a)
             ELSE IF d.verb = "%" THEN <<"%">> \o DoPrintf(rest, a)
             ELSE IF a = <<>> THEN MissingArg(d.verb) \o DoPrintf(rest, a)
             ELSE PrintArg(Head(a), d) \o DoPrintf(rest, Tail(a))

Sprintf(f, a) == DoPrintf(f, a)

\* the number of operands a format uses: its directives other than %% and a
\* dangling %
RECURSIVE NumVerbs(_)
NumVerbs(f) ==
    IF f = <<>> THEN 0
    ELSE IF Head(f) # "%" THEN NumVerbs(Tail(f))
    ELSE LET d == Directive(Tail(f))
         IN  (IF d.verb \in {"", "%"} THEN 0 ELSE 1)
             + NumVerbs(SubSeq(f, d.size + 2, Len(f)))

----------------------------------------------------------------------------
(* The templates compiled *)

MaxTokens == 4

Tokens == { <<"%">>, <<"%", "(">>, <<"(">>, <<")">>, <<"-", "7">>, <<" ">>, <<"x">>,
            <<"l","i","n","e">>, <<"m","s","g">>, <<"M","s","g">> }

RECURSIVE Concat(_)
Concat(ss) == IF ss = <<>> THEN <<>> ELSE Head(ss) \o Concat(Tail(ss))

TokenStrings == UNION {[1..n -> Tokens] : n \in 0..MaxTokens}

\* f := `%pkg %(-27)time %(-7)type %file %line - %msg`
TesterFormat ==
    <<"%","p","k","g"," ","%","(","-","2","7",")","t","i","m","e"," ",
      "%","(","-","7",")","t","y","p","e"," ","%","f","i","l","e"," ",
      "%","l","i","n","e"," ","-"," ","%","m","s","g">>

\* obj.Format = `%(-27)time %(-7)type %file %line - %msg`
DefaultFormat ==
    <<"%","(","-","2","7",")","t","i","m","e"," ",
      "%","(","-","7",")","t","y","p","e"," ","%","f","i","l","e"," ",
      "%","l","i","n","e"," ","-"," ","%","m","s","g">>

Templates == {Concat(ts) : ts \in TokenStrings} \cup {TesterFormat, DefaultFormat}

----------------------------------------------------------------------------
(* ParseSpec: ParseFormatString run step by step on every template *)

ParseInit ==
    /\ input \in Templates
    /\ scan = ScanInit
    /\ ret = RetInit
    /\ prev = ScanInit
    /\ pc = "start"
    /\ obj = Nil
    /\ nerr = [err |-> NoErr, arg |-> <<>>]
    /\ now = 0
    /\ trace = <<>>
    /\ stderr = <<>>
    /\ exitCode = NoExit
    /\ call = NoCall
    /\ run = NoRun

\* case normal: of one pass of the loop
ScanNormal ==
    /\ ~ret.returned
    /\ scan.i < Len(input)
    /\ scan.s = normal
    /\ scan' = ScanStep(input, scan).scan
    /\ ret' = ScanStep(input, scan).ret
    /\ prev' = scan
    /\ UNCHANGED <<input, lvars, run>>

\* case spec: of one pass of the loop
ScanSpec ==
    /\ ~ret.returned
    /\ scan.i < Len(input)
    /\ scan.s = spec
    /\ scan' = ScanStep(input, scan).scan
    /\ ret' = ScanStep(input, scan).ret
    /\ prev' = scan
    /\ UNCHANGED <<input, lvars, run>>

\* the loop ends: ofmt = string(ofmtb); return
ScanReturn ==
    /\ ~ret.returned
    /\ scan.i >= Len(input)
    /\ scan' = ScanStep(input, scan).scan
    /\ ret' = ScanStep(input, scan).ret
    /\ prev' = scan
    /\ UNCHANGED <<input, lvars, run>>

ParseNext == ScanNormal \/ ScanSpec \/ ScanReturn

ParseSpec == ParseInit /\ [][ParseNext]_vars

----------------------------------------------------------------------------
(* The logger: Object, NewMsg and the calls on it *)

\* the sinks of the program: os.Stdout and a log file it has opened
Stdout == "os.Stdout"

LogFile == "log.txt"

Sinks == {Stdout, LogFile}

\* obj.TimeFormat = "2006-01-02 15:05:05.000 MST"
DefaultTimeFormat ==
    <<"2","0","0","6","-","0","1","-","0","2"," ","1","5",":","0","5",":","0",
      "5",".","0","0","0"," ","M","S","T">>

\* a faulty NewMsg: an empty w is left as it is
NewMsgNoSink(n, f, t, w) ==
    LET fm == IF f = <<>> THEN DefaultFormat ELSE f
        p  == ParseFormatString(fm)
    IN  [obj |-> [Name           |-> n,
                  DebugEnabled   |-> TRUE,
                  InfoEnabled    |-> TRUE,
                  WarningEnabled |-> TRUE,
                  ErrorExitCode  |-> 1,
                  Writers        |-> w,
                  TimeFormat     |-> IF t = <<>> THEN DefaultTimeFormat ELSE t,
                  Format         |-> fm,
                  outputFormat   |-> p.ofmt,
                  outputFlds     |-> p.oids],
         err |-> p.err,
         arg |-> p.arg]

\* NewMsg(n, f, t, w) (obj *Object, err error)
NewMsg(n, f, t, w) ==
    LET fm == IF f = <<>> THEN DefaultFormat ELSE f
        p  == ParseFormatString(fm)
    IN  [obj |-> [Name           |-> n,
                  DebugEnabled   |-> TRUE,
                  InfoEnabled    |-> TRUE,
                  WarningEnabled |-> TRUE,
                  ErrorExitCode  |-> 1,
                  Writers        |-> IF Len(w) = 0 THEN <<Stdout>> ELSE w,
                  TimeFormat     |-> IF t = <<>> THEN DefaultTimeFormat ELSE t,
                  Format         |-> fm,
                  outputFormat   |-> p.ofmt,
                  outputFlds     |-> p.oids],
         err |-> p.err,
         arg |-> p.arg]

----------------------------------------------------------------------------
(* What PrintMsg reads from the runtime: the call stack and the clock *)

\* the constructor, and the methods of Object that log
OpNewMsg == "NewMsg"
OpDebug == "Debug"
OpDebugWithLevel == "DebugWithLevel"
OpInfo == "Info"
OpInfoWithLevel == "InfoWithLevel"
OpWarn == "Warn"
OpWarnWithLevel == "WarnWithLevel"
OpErr == "Err"
OpErrWithLevel == "ErrWithLevel"
OpErrNoExit == "ErrNoExit"
OpErrNoExitWithLevel == "ErrNoExitWithLevel"
OpPrintf == "Printf"

\* the message types
DEBUG == <<"D","E","B","U","G">>
INFO == <<"I","N","F","O">>
WARNING == <<"W","A","R","N","I","N","G">>
ERROR == <<"E","R","R","O","R">>

\* the stack when PrintMsg calls runtime.Caller(l), for a call made by
\* testMsg, itself called by main: frame 0 is PrintMsg, frame 1 the method of
\* Object, frame 2 its caller, frame 3 the caller's caller
MsgFile == <<"g","o","/","m","s","g","/","m","s","g",".","g","o">>

TesterFile == <<"g","o","/","t","e","s","t","/","t","e","s","t","e","r",".","g","o">>

\* the name of a method of Object, as runtime.FuncForPC(pc).Name() gives it
MethodName(op) ==
    CASE op = OpDebug -> <<"m","s","g",".","O","b","j","e","c","t",".","D","e","b","u","g">>
      [] op = OpDebugWithLevel -> <<"m","s","g",".","O","b","j","e","c","t",".","D","e","b","u","g","W","i","t","h","L","e","v","e","l">>
      [] op = OpInfo -> <<"m","s","g",".","O","b","j","e","c","t",".","I","n","f","o">>
      [] op = OpInfoWithLevel -> <<"m","s","g",".","O","b","j","e","c","t",".","I","n","f","o","W","i","t","h","L","e","v","e","l">>
      [] op = OpWarn -> <<"m","s","g",".","O","b","j","e","c","t",".","W","a","r","n">>
      [] op = OpWarnWithLevel -> <<"m","s","g",".","O","b","j","e","c","t",".","W","a","r","n","W","i","t","h","L","e","v","e","l">>
      [] op = OpErr -> <<"m","s","g",".","O","b","j","e","c","t",".","E","r","r">>
      [] op = OpErrWithLevel -> <<"m","s","g",".","O","b","j","e","c","t",".","E","r","r","W","i","t","h","L","e","v","e","l">>
      [] op = OpErrNoExit -> <<"m","s","g",".","O","b","j","e","c","t",".","E","r","r","N","o","E","x","i","t">>
      [] op = OpErrNoExitWithLevel -> <<"m","s","g",".","O","b","j","e","c","t",".","E","r","r","N","o","E","x","i","t","W","i","t","h","L","e","v","e","l">>

\* the line of a method of Object on which it calls PrintMsg
MethodLine(op) ==
    CASE op = OpDebug -> 201
      [] op = OpDebugWithLevel -> 215
      [] op = OpInfo -> 228
      [] op = OpInfoWithLevel -> 242
      [] op = OpWarn -> 255
      [] op = OpWarnWithLevel -> 269
      [] op = OpErr -> 281
      [] op = OpErrWithLevel -> 294
      [] op = OpErrNoExit -> 306
      [] op = OpErrNoExitWithLevel -> 318

Frames(op) ==
    << [file |-> MsgFile,    func |-> <<"m","s","g",".","O","b","j","e","c","t",".","P","r","i","n","t","M","s","g">>, line |-> 348],
       [file |-> MsgFile,    func |-> MethodName(op), line |-> MethodLine(op)],
       [file |-> TesterFile, func |-> <<"m","a","i","n",".","t","e","s","t","M","s","g">>, line |-> 23],
       [file |-> TesterFile, func |-> <<"m","a","i","n",".","m","a","i","n">>, line |-> 17] >>

\* pc, fname, lineno, _ := runtime.Caller(l); runtime.FuncForPC(pc).Name()
Caller(op, l) == Frames(op)[l + 1]

\* path.Base on a slash-separated path with no trailing slash
RECURSIVE Base(_)
Base(p) ==
    IF \E k \in 1..Len(p) : p[k] = "/"
    THEN Base(SubSeq(p, (CHOOSE k \in 1..Len(p) : p[k] = "/") + 1, Len(p)))
    ELSE p

\* strconv.Itoa on a number >= 0
RECURSIVE Itoa(_)
Itoa(n) == IF n < 10 THEN <<Digits[n + 1]>> ELSE Itoa(n \div 10) \o <<Digits[(n % 10) + 1]>>

\* the clock counts ticks, TicksPerMs of them to the millisecond
TicksPerMs == 2

\* t.Truncate(time.Millisecond)
Truncate(t) == t - (t % TicksPerMs)

\* t.Format(layout) in a location: the rendering is kept abstract, one byte
\* for the layout (D the default one, C any other), the millisecond count and
\* one byte for the location (L local, Z UTC)
FormatTime(t, loc, layout) ==
    <<(IF layout = DefaultTimeFormat THEN "D" ELSE "C")>> \o Itoa(t \div TicksPerMs) \o <<loc>>

----------------------------------------------------------------------------
(* PrintMsg and Printf *)

\* the keys of the map m of PrintMsg
KeyFile == <<"f","i","l","e">>
KeyFunc == <<"f","u","n","c">>
KeyLine == <<"l","i","n","e">>
KeyMsg == <<"m","s","g">>
KeyPkg == <<"p","k","g">>
KeyTime == <<"t","i","m","e">>
KeyUtc == <<"u","t","c">>
KeyType == <<"t","y","p","e">>

\* m := map[string]string{...}: t1 and t2 are the two readings of time.Now()
FieldMap(o, op, t, l, f, a, t1, t2) ==
    LET fr == Caller(op, l)
    IN  (KeyFile :> Base(SubSeq(fr.file, 1, Len(fr.file) - 3)))
        @@ (KeyFunc :> fr.func)
        @@ (KeyLine :> Itoa(fr.line))
        @@ (KeyMsg :> Sprintf(f, a))
        @@ (KeyPkg :> o.Name)
        @@ (KeyTime :> FormatTime(Truncate(t1), "L", o.TimeFormat))
        @@ (KeyUtc :> FormatTime(Truncate(t2), "Z", o.TimeFormat))
        @@ (KeyType :> t)

\* for _, k := range o.outputFlds { if v, ok := m[k]; ok { flds = append(flds, v) } ... }
CollectFlds(m, oflds) == [k \in 1..Len(oflds) |-> m[oflds[k]]]

\* fmt.Fprintf(w, s): what reaches the sink when the write succeeds (s is
\* passed as the format, with no operands)
Fprintf(s) == Sprintf(s, <<>>)

\* for _, w := range o.Writers { fmt.Fprintf(w, s) ... }: the writes made when
\* the write to the fail-th writer fails (0: none fails)
WriteAll(ws, s, fail) ==
    [k \in 1..(IF fail = 0 THEN Len(ws) ELSE fail - 1) |-> [w |-> ws[k], text |-> Fprintf(s)]]

\* o.PrintMsg(t, l, f, a...) called by the method op: what it writes to the
\* sinks and to os.Stderr, and the status it exits the process with, if it does
PrintMsg(o, op, t, l, f, a, t1, t2, fail) ==
    LET m    == FieldMap(o, op, t, l, f, a, t1, t2)
        bad  == {k \in 1..Len(o.outputFlds) : o.outputFlds[k] \notin DOMAIN m}
        flds == CollectFlds(m, o.outputFlds)
        s    == Sprintf(o.outputFormat, flds) \o <<"\n">>
    IN  IF bad # {}
        THEN [trace |-> <<>>, s |-> <<>>, m |-> m, exit |-> 1,
              stderr |-> <<[kind |-> "invalid specification id",
                            id |-> o.outputFlds[CHOOSE k \in bad : \A h \in bad : k <= h]]>>]
        ELSE IF fail = 0
        THEN [trace |-> WriteAll(o.Writers, s, 0), s |-> s, m |-> m, exit |-> NoExit,
              stderr |-> <<>>]
        ELSE IF Len(s) < 2
        THEN [trace |-> WriteAll(o.Writers, s, fail), s |-> s, m |-> m, exit |-> 2,
              stderr |-> <<[kind |-> "panic: slice bounds out of range"]>>]
        ELSE [trace |-> WriteAll(o.Writers, s, fail), s |-> s, m |-> m, exit |-> 1,
              stderr |-> <<[kind |-> "FATAL: fmt.Fprintf() failed for writer",
                            writer |-> o.Writers[fail], file |-> m[KeyFile],
                            func |-> m[KeyFunc], line |-> m[KeyLine],
                            output |-> SubSeq(s, 1, Len(s) - 2)]>>]

\* for _, w := range o.Writers { fmt.Fprintf(w, s) } of Printf, from the k-th
\* writer on: the writes made when the writes to the writers whose indices are
\* in failed return an error (the error is not looked at)
RECURSIVE PrintfLoop(_, _, _, _)
PrintfLoop(ws, s, failed, k) ==
    IF k > Len(ws) THEN <<>>
    ELSE (IF k \in failed THEN <<>> ELSE <<[w |-> ws[k], text |-> Fprintf(s)]>>)
         \o PrintfLoop(ws, s, failed, k + 1)

\* o.Printf(f, a...)
PrintfWrites(o, f, a, failed) == PrintfLoop(o.Writers, Sprintf(f, a), failed, 1)

----------------------------------------------------------------------------
(* LogSpec: a program that builds a logger with NewMsg and uses it *)

MaxClock == 2

\* n := "Tester"
PkgName == <<"T","e","s","t","e","r">>

\* the templates the program passes to NewMsg ("" selects the default)
LogTemplates ==
    { <<>>,
      <<"%","p","k","g"," ","%","f","u","n","c"," ","%","u","t","c"," ","%","m","s","g">>,
      <<"%","m","s","g"," ","%","l","i","n","e","x">>,
      DefaultFormat }

\* the time formats it passes ("" selects the default)
LogTimeFormats == { <<>>, DefaultTimeFormat }

\* the writer lists it passes
LogWriters == { <<>>, <<Stdout>>, <<Stdout, LogFile>> }

\* the format and operands of the messages it logs
Messages ==
    { [f |-> <<"p","i","d","=","%","v">>, a |-> << <<"7">> >>],
      [f |-> <<"5","%","%">>, a |-> <<>>] }

\* the caller levels it passes to the WithLevel methods
Levels == 2..3

ExitCodes == {1, 2}

LogInit ==
    /\ pc = "start"
    /\ obj = Nil
    /\ nerr = [err |-> NoErr, arg |-> <<>>]
    /\ now = 0
    /\ trace = <<>>
    /\ stderr = <<>>
    /\ exitCode = NoExit
    /\ call = NoCall
    /\ run = NoRun
    /\ input = <<>>
    /\ scan = ScanInit
    /\ ret = RetInit
    /\ prev = ScanInit

\* m, e := msg.NewMsg(n, f, t, w)
CallNewMsg ==
    /\ pc = "start"
    /\ \E f \in LogTemplates, t \in LogTimeFormats, w \in LogWriters :
          LET r == NewMsg(PkgName, f, t, w)
          IN  /\ obj' = r.obj
              /\ nerr' = [err |-> r.err, arg |-> r.arg]
              /\ call' = [op |-> OpNewMsg, f |-> f, t |-> t, w |-> w]
    /\ pc' = "returning"
    /\ UNCHANGED <<now, trace, stderr, exitCode, pvars, run>>

\* if e != nil { panic(e) }
PanicOnError ==
    /\ pc = "running"
    /\ call = NoCall
    /\ nerr.err # NoErr
    /\ pc' = "exited"
    /\ exitCode' = 2
    /\ stderr' = <<[kind |-> "panic", err |-> nerr.err, arg |-> nerr.arg]>>
    /\ UNCHANGED <<obj, nerr, now, trace, call, pvars, run>>

\* log.DebugEnabled = b
SetDebugEnabled ==
    /\ pc = "running"
    /\ \E b \in BOOLEAN : obj' = [obj EXCEPT !.DebugEnabled = b]
    /\ UNCHANGED <<pc, nerr, now, trace, stderr, exitCode, call, pvars, run>>

\* log.InfoEnabled = b
SetInfoEnabled ==
    /\ pc = "running"
    /\ \E b \in BOOLEAN : obj' = [obj EXCEPT !.InfoEnabled = b]
    /\ UNCHANGED <<pc, nerr, now, trace, stderr, exitCode, call, pvars, run>>

\* log.WarningEnabled = b
SetWarningEnabled ==
    /\ pc = "running"
    /\ \E b \in BOOLEAN : obj' = [obj EXCEPT !.WarningEnabled = b]
    /\ UNCHANGED <<pc, nerr, now, trace, stderr, exitCode, call, pvars, run>>

\* log.ErrorExitCode = c
SetErrorExitCode ==
    /\ pc = "running"
    /\ \E c \in ExitCodes : obj' = [obj EXCEPT !.ErrorExitCode = c]
    /\ UNCHANGED <<pc, nerr, now, trace, stderr, exitCode, call, pvars, run>>

\* log.Writers = append(log.Writers, fp)
AppendWriter ==
    /\ pc = "running"
    /\ \E w \in Sinks :
          /\ \A k \in 1..Len(obj.Writers) : obj.Writers[k] # w
          /\ obj' = [obj EXCEPT !.Writers = Append(@, w)]
    /\ UNCHANGED <<pc, nerr, now, trace, stderr, exitCode, call, pvars, run>>

\* log.Writers = log.Writers[:len(log.Writers)-1]
DropWriter ==
    /\ pc = "running"
    /\ Len(obj.Writers) > 1
    /\ obj' = [obj EXCEPT !.Writers = SubSeq(@, 1, Len(@) - 1)]
    /\ UNCHANGED <<pc, nerr, now, trace, stderr, exitCode, call, pvars, run>>

\* time passes between two calls
Tick ==
    /\ pc = "running"
    /\ now < MaxClock
    /\ now' = now + 1
    /\ UNCHANGED <<pc, obj, nerr, trace, stderr, exitCode, call, pvars, run>>

\* a method whose flag is off: its body is skipped
Skipped(op, l, m) ==
    /\ call' = [op |-> op, l |-> l, f |-> m.f, a |-> m.a, enabled |-> FALSE]
    /\ pc' = "returning"
    /\ UNCHANGED <<obj, nerr, now, trace, stderr, exitCode, pvars, run>>

\* a method, called with level l, calls o.PrintMsg(t, lv, f, a...); after it
\* the method returns or (Err, ErrWithLevel) goes on to os.Exit
Enter(op, l, t, lv, m, after) ==
    /\ call' = [op |-> op, l |-> l, f |-> m.f, a |-> m.a, enabled |-> TRUE,
                t |-> t, lv |-> lv, after |-> after]
    /\ pc' = "PrintMsg"
    /\ UNCHANGED <<obj, nerr, now, trace, stderr, exitCode, pvars, run>>

\* the body of PrintMsg; the clock may advance between the two readings of
\* time.Now(), and the write to one of the writers may fail
RunPrintMsg ==
    /\ pc = "PrintMsg"
    /\ \E t2 \in {now, now + 1}, fail \in 0..Len(obj.Writers) :
          /\ t2 <= MaxClock
          /\ LET r == PrintMsg(obj, call.op, call.t, call.lv, call.f, call.a, now, t2, fail)
             IN  /\ call' = [op |-> call.op, l |-> call.l, f |-> call.f, a |-> call.a,
                             enabled |-> TRUE, s |-> r.s, m |-> r.m, fail |-> fail]
                 /\ trace' = r.trace
                 /\ stderr' = r.stderr
                 /\ now' = t2
                 /\ pc' = IF r.exit # NoExit THEN "exited" ELSE call.after
                 /\ exitCode' = r.exit
    /\ UNCHANGED <<obj, nerr, pvars, run>>

Debug ==
    /\ pc = "running"
    /\ \E m \in Messages :
          IF obj.DebugEnabled THEN Enter(OpDebug, 2, DEBUG, 2, m, "returning")
          ELSE Skipped(OpDebug, 2, m)

DebugWithLevel ==
    /\ pc = "running"
    /\ \E m \in Messages, l \in Levels :
          IF obj.DebugEnabled THEN Enter(OpDebugWithLevel, l, DEBUG, l, m, "returning")
          ELSE Skipped(OpDebugWithLevel, l, m)

Info ==
    /\ pc = "running"
    /\ \E m \in Messages :
          IF obj.InfoEnabled THEN Enter(OpInfo, 2, INFO, 2, m, "returning")
          ELSE Skipped(OpInfo, 2, m)

InfoWithLevel ==
    /\ pc = "running"
    /\ \E m \in Messages, l \in Levels :
          IF obj.InfoEnabled THEN Enter(OpInfoWithLevel, l, INFO, l, m, "returning")
          ELSE Skipped(OpInfoWithLevel, l, m)

Warn ==
    /\ pc = "running"
    /\ \E m \in Messages :
          IF obj.WarningEnabled THEN Enter(OpWarn, 2, WARNING, 2, m, "returning")
          ELSE Skipped(OpWarn, 2, m)

\* a faulty WarnWithLevel: o.WarningEnabled is not looked at
WarnWithLevelUngated ==
    /\ pc = "running"
    /\ \E m \in Messages, l \in Levels : Enter(OpWarnWithLevel, l, WARNING, 2, m, "returning")

\* the level passed is not used: o.PrintMsg("WARNING", 2, f, a...)
WarnWithLevel ==
    /\ pc = "running"
    /\ \E m \in Messages, l \in Levels :
          IF obj.WarningEnabled THEN Enter(OpWarnWithLevel, l, WARNING, 2, m, "returning")
          ELSE Skipped(OpWarnWithLevel, l, m)

\* o.PrintMsg("ERROR", 2, f, a...), os.Exit still to come
Err ==
    /\ pc = "running"
    /\ \E m \in Messages : Enter(OpErr, 2, ERROR, 2, m, "exiting")

\* o.PrintMsg("ERROR", 2, f, a...), os.Exit still to come
ErrWithLevel ==
    /\ pc = "running"
    /\ \E m \in Messages, l \in Levels : Enter(OpErrWithLevel, l, ERROR, 2, m, "exiting")

\* a faulty ExitStatus: the status is fixed
ExitStatusOne(o) == 1

\* the status of os.Exit(o.ErrorExitCode)
ExitStatus(o) == o.ErrorExitCode

\* os.Exit(o.ErrorExitCode) of Err and ErrWithLevel
ErrExit ==
    /\ pc = "exiting"
    /\ pc' = "exited"
    /\ exitCode' = ExitStatus(obj)
    /\ UNCHANGED <<obj, nerr, now, trace, stderr, call, pvars, run>>

ErrNoExit ==
    /\ pc = "running"
    /\ \E m \in Messages : Enter(OpErrNoExit, 2, ERROR, 2, m, "returning")

ErrNoExitWithLevel ==
    /\ pc = "running"
    /\ \E m \in Messages, l \in Levels :
          Enter(OpErrNoExitWithLevel, l, ERROR, 2, m, "returning")

\* o.Printf(f, a...)
Printf ==
    /\ pc = "running"
    /\ \E m \in Messages, failed \in SUBSET (1..Len(obj.Writers)) :
          /\ call' = [op |-> OpPrintf, f |-> m.f, a |-> m.a, enabled |-> TRUE,
                      fail |-> failed]
          /\ trace' = PrintfWrites(obj, m.f, m.a, failed)
    /\ pc' = "returning"
    /\ UNCHANGED <<obj, nerr, now, stderr, exitCode, pvars, run>>

\* the method returns to its caller
Return ==
    /\ pc = "returning"
    /\ pc' = "running"
    /\ call' = NoCall
    /\ trace' = <<>>
    /\ UNCHANGED <<obj, nerr, now, stderr, exitCode, pvars, run>>

LogNext ==
    \/ CallNewMsg \/ PanicOnError
    \/ SetDebugEnabled \/ SetInfoEnabled \/ SetWarningEnabled \/ SetErrorExitCode
    \/ AppendWriter \/ DropWriter \/ Tick
    \/ Debug \/ DebugWithLevel \/ Info \/ InfoWithLevel \/ Warn \/ WarnWithLevel
    \/ Err \/ ErrWithLevel \/ ErrExit \/ ErrNoExit \/ ErrNoExitWithLevel
    \/ RunPrintMsg \/ Printf \/ Return

LogSpec == LogInit /\ [][LogNext]_vars

----------------------------------------------------------------------------
(* RunSpec: GetExitCode of package run applied to an error *)

MaxStatus == 60

\* the signals that end a command in the runs modelled: SIGKILL, SIGTERM
Signals == {9, 15}

\* err == nil
NilError == [type |-> "nil"]

\* the errors that exec.Cmd hands back: an *exec.ExitError whose Sys() is a
\* syscall.WaitStatus (the command exited with a status or was ended by a
\* signal) or something else, an *exec.Error (the command was not found) and
\* an *os.PathError (it could not be started)
RunErrors ==
    {NilError}
    \cup {[type |-> "*exec.ExitError", sys |-> [type |-> "syscall.WaitStatus", w |-> c * 256]] :
             c \in 0..MaxStatus}
    \cup {[type |-> "*exec.ExitError", sys |-> [type |-> "syscall.WaitStatus", w |-> g]] :
             g \in Signals}
    \cup {[type |-> "*exec.ExitError", sys |-> [type |-> "other"]]}
    \cup {[type |-> "*exec.Error"], [type |-> "*os.PathError"]}

\* status.ExitStatus() of a syscall.WaitStatus
WaitExitStatus(w) == IF w % 128 = 0 THEN (w \div 256) % 256 ELSE -1

\* a faulty GetExitCode: the status of an ExitError is not read
GetExitCodeNoStatus(err) == IF err = NilError THEN 0 ELSE -1

\* GetExitCode(err error) (code int)
GetExitCode(err) ==
    IF err # NilError
    THEN IF err.type = "*exec.ExitError"
         THEN IF err.sys.type = "syscall.WaitStatus"
              THEN WaitExitStatus(err.sys.w)
              ELSE -1
         ELSE 0
    ELSE 0

RunInit ==
    /\ run \in [err : RunErrors, code : {0}, returned : {FALSE}]
    /\ pc = "start"
    /\ obj = Nil
    /\ nerr = [err |-> NoErr, arg |-> <<>>]
    /\ now = 0
    /\ trace = <<>>
    /\ stderr = <<>>
    /\ exitCode = NoExit
    /\ call = NoCall
    /\ input = <<>>
    /\ scan = ScanInit
    /\ ret = RetInit
    /\ prev = ScanInit

\* code = GetExitCode(e)
CallGetExitCode ==
    /\ ~run.returned
    /\ run' = [err |-> run.err, code |-> GetExitCode(run.err), returned |-> TRUE]
    /\ UNCHANGED <<pvars, lvars>>

RunNext == CallGetExitCode

RunSpec == RunInit /\ [][RunNext]_vars

----------------------------------------------------------------------------
(* What the claims say of the compiler, stated on the template itself *)

ValidIds == {valid[k] : k \in 1..Len(valid)}

\* the identifiers that the bytes from position p on begin with
IdsAt(ib, p) == {v \in ValidIds : p <= Len(ib) /\ HasPrefix(SliceFrom(ib, p), v)}

\* the positions q of the first ')' after a "%(" at p, if there is one
ClosesAt(ib, p) ==
    {q \in (p + 2)..(Len(ib) - 1) :
        /\ At(ib, q) = ")"
        /\ \A r \in (p + 2)..(q - 1) : At(ib, r) # ")"}

\* the markers %<id> and %(<s>)<id> that start at position p
MarkersAt(ib, p) ==
    IF At(ib, p) # "%" THEN {}
    ELSE {[len |-> 1 + Len(v), verb |-> <<"%", "v">>, id |-> v] : v \in IdsAt(ib, p + 1)}
         \cup
         (IF p + 1 < Len(ib) /\ At(ib, p + 1) = "("
          THEN UNION {{[len  |-> (q + 1 - p) + Len(v),
                        verb |-> <<"%">> \o Slice(ib, p + 2, q) \o <<"v">>,
                        id   |-> v] : v \in IdsAt(ib, q + 1)} : q \in ClosesAt(ib, p)}
          ELSE {})

\* the template from position p on with each marker replaced by its verb and
\* every other byte copied, and the identifiers of the markers in order
RECURSIVE Replaced(_, _)
Replaced(ib, p) ==
    IF p >= Len(ib) THEN [ofmt |-> <<>>, oids |-> <<>>]
    ELSE IF MarkersAt(ib, p) # {}
    THEN LET m == CHOOSE x \in MarkersAt(ib, p) : TRUE
             r == Replaced(ib, p + m.len)
         IN  [ofmt |-> m.verb \o r.ofmt, oids |-> <<m.id>> \o r.oids]
    ELSE LET r == Replaced(ib, p + 1)
         IN  [ofmt |-> <<At(ib, p)>> \o r.ofmt, oids |-> r.oids]

Compiled == ret.returned /\ ret.err = NoErr

\* C1: a template that compiles without error yields the template with each
\* marker %<id> replaced by %v and each %(<s>)<id> by %<s>v, every other byte
\* copied in order, and the identifiers in order of appearance; the tester's
\* template yields "%v %-27v %-7v %v %v - %v" and [pkg, time, type, file, line, msg].
C1_RenderTemplateAndFields ==
    Compiled =>
        /\ ret.ofmt = Replaced(input, 0).ofmt
        /\ scan.oids = Replaced(input, 0).oids
        /\ input = TesterFormat =>
              /\ ret.ofmt = <<"%","v"," ","%","-","2","7","v"," ","%","-","7","v"," ",
                              "%","v"," ","%","v"," ","-"," ","%","v">>
              /\ scan.oids = << <<"p","k","g">>, <<"t","i","m","e">>, <<"t","y","p","e">>,
                                <<"f","i","l","e">>, <<"l","i","n","e">>, <<"m","s","g">> >>

\* C2: for a template that compiles without error, the number of markers in the
\* template, the length of the field list and the number of print-verbs of the
\* render template are equal, whatever bytes a parenthesized spec holds.
C2_MarkersFieldsVerbsAgree ==
    Compiled =>
        /\ Len(Replaced(input, 0).oids) = Len(scan.oids)
        /\ Len(scan.oids) = NumVerbs(ret.ofmt)

\* letters, digits, '_', '-' and '$'
ContinuationChars ==
    {"a","b","c","d","e","f","g","h","i","j","k","l","m","n","o","p","q","r","s",
     "t","u","v","w","x","y","z"}
    \cup {"A","B","C","D","E","F","G","H","I","J","K","L","M","N","O","P","Q","R","S",
          "T","U","V","W","X","Y","Z"}
    \cup {Digits[d] : d \in 1..10} \cup {"_", "-", "$"}

\* the last step was the spec case of the loop, entered at prev.i (the byte
\* after the marker's '%')
AfterSpecCase == prev.s = spec /\ prev.i < Len(input)

\* that marker is "%(" with no ')' before the end of the template
Unterminated == At(input, prev.i) = "(" /\ ClosesAt(input, prev.i - 1) = {}

\* where that marker's identifier has to start: after the ')' or after the '%'
IdPos ==
    IF At(input, prev.i) = "("
    THEN (CHOOSE q \in ClosesAt(input, prev.i - 1) : TRUE) + 1
    ELSE prev.i

\* C3: an identifier is accepted only if the byte after it is absent or no
\* continuation character: followed by one, the call fails with "unrecognized
\* specification id" naming the identifier and that byte (%linex names linex);
\* otherwise the field is appended and scanning goes on in the normal state at
\* the byte just past the identifier.
C3_IdentifierBoundary ==
    /\ (AfterSpecCase /\ ~Unterminated) =>
          \A v \in IdsAt(input, IdPos) :
             LET e == IdPos + Len(v)
             IN  IF e < Len(input) /\ At(input, e) \in ContinuationChars
                 THEN /\ ret.returned
                      /\ ret.err = ErrUnrecognized
                      /\ ret.arg = v \o <<At(input, e)>>
                      /\ scan.oids = prev.oids
                 ELSE /\ ~ret.returned
                      /\ scan.s = normal
                      /\ scan.i = e
                      /\ scan.oids = Append(prev.oids, v)
    /\ Len(scan.oids) > Len(prev.oids) =>
          \/ scan.i = Len(input)
          \/ At(input, scan.i) \notin ContinuationChars
    /\ (input = <<"%", "l", "i", "n", "e", "x">> /\ ret.returned) =>
          /\ ret.err = ErrUnrecognized
          /\ ret.arg = <<"l", "i", "n", "e", "x">>

\* C3 witness: %linex has failed with the error naming linex
C3_Witness ==
    /\ input = <<"%", "l", "i", "n", "e", "x">>
    /\ ret.returned
    /\ ret.err = ErrUnrecognized

\* C4: when the scanner comes to a "%(" that no ')' follows before the end of
\* the template, the call returns the missing-')' error whose text carries the
\* template from that '%' to the end, and appends no field for the marker.
C4_UnterminatedSpec ==
    (AfterSpecCase /\ Unterminated) =>
        /\ ret.returned
        /\ ret.err = ErrMissingParen
        /\ ret.arg = SliceFrom(input, prev.i - 1)
        /\ scan.oids = prev.oids

\* C4 witness: a template with a field and then an unterminated "%(" has failed
C4_Witness ==
    /\ AfterSpecCase
    /\ Unterminated
    /\ ret.returned
    /\ Len(scan.oids) = 1
    /\ Len(ret.arg) < Len(input)

----------------------------------------------------------------------------
(* What the claims say of the logger *)

DebugOps == {OpDebug, OpDebugWithLevel}
InfoOps == {OpInfo, OpInfoWithLevel}
WarnOps == {OpWarn, OpWarnWithLevel}
GatedOps == DebugOps \cup InfoOps \cup WarnOps
ExitingErrOps == {OpErr, OpErrWithLevel}
NoExitErrOps == {OpErrNoExit, OpErrNoExitWithLevel}
TemplatedOps == GatedOps \cup ExitingErrOps \cup NoExitErrOps

\* the enable flag of the level of a gated method
FlagOf(o, op) ==
    IF op \in DebugOps THEN o.DebugEnabled
    ELSE IF op \in InfoOps THEN o.InfoEnabled
    ELSE o.WarningEnabled

\* the call in progress has run its body to the end
BodyDone == pc \in {"returning", "exiting"}

\* the call in progress has made exactly one write to each configured sink, in
\* the order of the Writers list
OneWritePerSink ==
    /\ Len(trace) = Len(obj.Writers)
    /\ \A k \in 1..Len(trace) : trace[k].w = obj.Writers[k]

\* sub occurs in s as a run of consecutive bytes
Occurs(sub, s) ==
    \E k \in 0..(Len(s) - Len(sub)) : SubSeq(s, k + 1, k + Len(sub)) = sub

\* C6: when the template given to NewMsg does not compile, NewMsg returns the
\* compiler's error and hands no Object back.
C6_NoObjectOnError ==
    (pc # "start" /\ nerr.err # NoErr) => obj = Nil

\* the state part of C7
C7_State ==
    (call.op \in GatedOps /\ pc \in {"returning", "exited"}) =>
        IF call.enabled
        THEN /\ FlagOf(obj, call.op)
             /\ pc = "returning" <=> call.fail = 0
             /\ pc = "returning" => (OneWritePerSink /\ stderr = <<>> /\ exitCode = NoExit)
        ELSE /\ ~FlagOf(obj, call.op)
             /\ pc = "returning"
             /\ trace = <<>>
             /\ stderr = <<>>
             /\ exitCode = NoExit

\* the step part of C7: a gated method called while the program runs
C7_Step ==
    (pc = "running" /\ call'.op \in GatedOps) =>
        /\ call'.enabled = FlagOf(obj, call'.op)
        /\ pc' = IF FlagOf(obj, call'.op) THEN "PrintMsg" ELSE "returning"
        /\ UNCHANGED <<obj, nerr, now, trace, stderr, exitCode>>

\* C7: whatever assignments to the three flags and calls came before, a call
\* of Debug, Info, Warn or a WithLevel variant appends exactly one line to each
\* configured sink if the flag of its level is true when it is made (every
\* write succeeding), and otherwise writes nothing and changes nothing; only
\* the flag of the call's own level decides.
C7_LevelGating == []C7_State /\ [][C7_Step]_vars

\* C7 witness: with DebugEnabled off, an Info call has written its line to two
\* sinks
C7_Witness ==
    /\ pc = "returning"
    /\ call.op = OpInfo
    /\ call.enabled
    /\ ~obj.DebugEnabled
    /\ Len(trace) = 2

\* the state part of C8
C8_State ==
    /\ call.op \in (ExitingErrOps \cup NoExitErrOps) => call.enabled
    /\ (call.op \in NoExitErrOps /\ pc \notin {"running", "PrintMsg"}) =>
          /\ pc # "exiting"
          /\ pc = "returning" <=> call.fail = 0
          /\ pc = "returning" => (OneWritePerSink /\ exitCode = NoExit)
    /\ (call.op \in ExitingErrOps /\ pc \notin {"running", "PrintMsg"}) =>
          /\ pc # "returning"
          /\ pc = "exiting" => (call.fail = 0 /\ OneWritePerSink /\ exitCode = NoExit)
          /\ (pc = "exited" /\ call.fail = 0) =>
                (OneWritePerSink /\ exitCode = obj.ErrorExitCode)

\* the step part of C8: os.Exit is what follows the writes of Err
C8_Step ==
    pc = "exiting" => (pc' = "exited" /\ exitCode' = obj.ErrorExitCode /\ trace' = trace)

\* C8: whatever the three flags are, ErrNoExit and ErrNoExitWithLevel write the
\* line to every configured sink and do not end the process, and Err and
\* ErrWithLevel write the line to every configured sink and only then end the
\* process with the current ErrorExitCode (every write succeeding).
C8_ErrorCalls == []C8_State /\ [][C8_Step]_vars

\* C8 witness: with the three flags off and ErrorExitCode 2, Err has written to
\* two sinks and ended the process
C8_Witness ==
    /\ pc = "exited"
    /\ call.op = OpErr
    /\ call.fail = 0
    /\ ~obj.DebugEnabled /\ ~obj.InfoEnabled /\ ~obj.WarningEnabled
    /\ obj.ErrorExitCode = 2
    /\ exitCode = 2
    /\ Len(trace) = 2

\* C9: for every templated call that is enabled, each configured sink receives,
\* in the order of the Writers list, exactly the render template with the field
\* values substituted in order and one newline after it; the field values, a
\* message text with '%' in it included, are in the output unchanged.
C9_LineWrittenVerbatim ==
    (BodyDone /\ call.op \in TemplatedOps /\ call.enabled /\ nerr.err = NoErr) =>
        /\ OneWritePerSink
        /\ \A k \in 1..Len(trace) :
              /\ trace[k].text = call.s
              /\ \A j \in 1..Len(obj.outputFlds) :
                    Occurs(call.m[obj.outputFlds[j]], trace[k].text)

\* C10: Printf writes to every configured sink exactly its format formatted
\* with its operands once: no newline is added, no field is substituted, and a
\* '%' in the formatted text comes out as it is.
C10_PrintfVerbatim ==
    (pc = "returning" /\ call.op = OpPrintf /\ call.fail = {}) =>
        /\ OneWritePerSink
        /\ \A k \in 1..Len(trace) : trace[k].text = Sprintf(call.f, call.a)

WithLevelOps ==
    {OpDebugWithLevel, OpInfoWithLevel, OpWarnWithLevel, OpErrWithLevel, OpErrNoExitWithLevel}

\* the file, func and line fields that the stack frame fr gives
LocationOf(fr) ==
    [file |-> Base(SubSeq(fr.file, 1, Len(fr.file) - 3)), func |-> fr.func, line |-> Itoa(fr.line)]

\* the file, func and line fields of the call in progress
LocationLogged == [file |-> call.m[KeyFile], func |-> call.m[KeyFunc], line |-> call.m[KeyLine]]

\* C11: each of the five WithLevel methods takes the file, func and line fields
\* from the stack frame at the depth l it was given, whatever l is; with l = 2
\* that is the frame a call of the method without WithLevel reports.
C11_LevelSelectsFrame ==
    (pc # "PrintMsg" /\ call.op \in WithLevelOps /\ call.enabled) =>
        LocationLogged = LocationOf(Frames(call.op)[call.l + 1])

\* the diagnostic that a failed write to the fail-th writer must leave on
\* os.Stderr: the sink, the call site and the complete line
IsWriteDiagnostic(d, fail) ==
    /\ d.kind = "FATAL: fmt.Fprintf() failed for writer"
    /\ d.writer = obj.Writers[fail]
    /\ d.file = call.m[KeyFile]
    /\ d.func = call.m[KeyFunc]
    /\ d.line = call.m[KeyLine]
    /\ d.output \in {call.s, SubSeq(call.s, 1, Len(call.s) - 1)}

\* C12: in the templated calls and in Printf, a failed write to a sink puts a
\* diagnostic on os.Stderr (sink, call-site file, func and line, the complete
\* line) and ends the process; the call never returns after a failed write.
C12_WriteFailureIsFatal ==
    /\ (call.op = OpPrintf /\ call.fail # {}) => (pc = "exited" /\ stderr # <<>>)
    /\ (pc # "PrintMsg" /\ call.op \in TemplatedOps /\ call.enabled /\ call.fail # 0) =>
          /\ pc = "exited"
          /\ exitCode # NoExit
          /\ Len(stderr) = 1
          /\ IsWriteDiagnostic(stderr[1], call.fail)

\* the instant a rendered time stamp denotes: its bytes without the location
Instant(ts) == SubSeq(ts, 1, Len(ts) - 1)

\* C16: in one logging call the time and utc fields denote the same instant,
\* also when the clock advances during the call.
C16_OneClockReading ==
    (pc # "PrintMsg" /\ call.op \in TemplatedOps /\ call.enabled) =>
        Instant(call.m[KeyTime]) = Instant(call.m[KeyUtc])

\* every '%' of ib is half of a pair "%%", reading from the left
RECURSIVE OnlyEscapes(_)
OnlyEscapes(ib) ==
    IF ib = <<>> THEN TRUE
    ELSE IF Head(ib) # "%" THEN OnlyEscapes(Tail(ib))
    ELSE Len(ib) >= 2 /\ ib[2] = "%" /\ OnlyEscapes(SubSeq(ib, 3, Len(ib)))

\* ib with each pair "%%" replaced by one '%'
RECURSIVE Unescaped(_)
Unescaped(ib) ==
    IF ib = <<>> THEN <<>>
    ELSE IF Head(ib) = "%" /\ Len(ib) >= 2 /\ ib[2] = "%"
    THEN <<"%">> \o Unescaped(SubSeq(ib, 3, Len(ib)))
    ELSE <<Head(ib)>> \o Unescaped(Tail(ib))

\* C13: a template whose only '%' bytes are pairs "%%" compiles without error,
\* has no field, and renders as the template with one '%' for each pair.
C13_PercentEscape ==
    (ret.returned /\ Occurs(<<"%", "%">>, input) /\ OnlyEscapes(input)) =>
        /\ ret.err = NoErr
        /\ scan.oids = <<>>
        /\ Sprintf(ret.ofmt, <<>>) = Unescaped(input)

\* the Object that the documented defaults describe
DocumentedDefaults ==
    [Name           |-> PkgName,
     DebugEnabled   |-> TRUE,
     InfoEnabled    |-> TRUE,
     WarningEnabled |-> TRUE,
     ErrorExitCode  |-> 1,
     Writers        |-> <<Stdout>>,
     TimeFormat     |-> <<"2","0","0","6","-","0","1","-","0","2"," ","1","5",":","0","5",":",
                          "0","5",".","0","0","0"," ","M","S","T">>,
     Format         |-> <<"%","(","-","2","7",")","t","i","m","e"," ","%","(","-","7",")",
                          "t","y","p","e"," ","%","f","i","l","e"," ","%","l","i","n","e",
                          " ","-"," ","%","m","s","g">>,
     outputFormat   |-> <<"%","-","2","7","v"," ","%","-","7","v"," ","%","v"," ","%","v",
                          " ","-"," ","%","v">>,
     outputFlds     |-> <<KeyTime, KeyType, KeyFile, KeyLine, KeyMsg>>]

\* the step part of C14: what NewMsg hands back for three empty arguments
C14_Step ==
    (pc = "start" /\ call'.f = <<>> /\ call'.t = <<>> /\ call'.w = <<>>) =>
        /\ nerr'.err = NoErr
        /\ obj' = DocumentedDefaults
        /\ obj' = NewMsg(PkgName, DefaultFormat, DefaultTimeFormat, <<Stdout>>).obj

C15_GetExitCode ==
    run.returned =>
        run.code = IF run.err = NilError THEN 0
                   ELSE IF run.err.type = "*exec.ExitError" /\ run.err.sys.type = "syscall.WaitStatus"
                   THEN WaitExitStatus(run.err.sys.w)
                   ELSE -1

\* the keys of the map m that PrintMsg builds
MapKeys == DOMAIN FieldMap(DocumentedDefaults, OpInfo, INFO, 2, <<>>, <<>>, 0, 0)

\* the Object that NewMsg returns for the template being compiled
ObjectOf(f) == NewMsg(PkgName, f, <<>>, <<>>).obj

\* C17: whatever the template and whether or not it compiles, every element of
\* the field list of the Object that NewMsg returns is one of the eight keys of
\* the map of PrintMsg, so no logging call reaches the "invalid specification
\* id" exit.
C17_FieldsAreMapKeys ==
    /\ Cardinality(MapKeys) = 8
    /\ \A k \in 1..Len(scan.oids) : scan.oids[k] \in MapKeys
    /\ ret.returned =>
          /\ input # <<>> => ObjectOf(input).outputFlds = scan.oids
          /\ \A k \in 1..Len(ObjectOf(input).outputFlds) :
                ObjectOf(input).outputFlds[k] \in MapKeys
          /\ PrintMsg(ObjectOf(input), OpInfo, INFO, 2, <<>>, <<>>, 0, 0, 0).exit = NoExit

\* C17 witness: a template has failed to compile after a field was compiled
C17_Witness ==
    /\ ret.returned
    /\ ret.err # NoErr
    /\ Len(scan.oids) >= 1
    /\ ObjectOf(input).outputFlds = scan.oids

====
